---------------------------- MODULE Spec2Model ----------------------------
(***************************************************************************)
(* A model of the `graph` crate (src/src/lib.rs): the Graph structure with *)
(* its histogram and scatter renderers, the GridPrint realisation of       *)
(* Graph, and HBar.                                                        *)
(*                                                                         *)
(* The crate computes every coordinate in f32.  An f32 value is modelled   *)
(* as a pair <<m, e>> standing for the rational m / 2^e (m an integer,     *)
(* e >= 0), and every arithmetic step rounds its exact result to the 24    *)
(* significant bits of an f32, ties to even, as IEEE-754 single precision  *)
(* does.  Infinities, NaN and subnormals lie outside the values the model  *)
(* draws.                                                                  *)
(***************************************************************************)
EXTENDS Integers, Sequences, FiniteSets, TLC

VARIABLES kind, width, height, buf, data, op, ret, acc, panicked, hbar

vars == <<kind, width, height, buf, data, op, ret, acc, panicked, hbar>>

(***************************************************************************)
(* Bounds of the model.                                                    *)
(***************************************************************************)
MaxW == 3          \* effective widths 1..MaxW
MaxH == 3          \* effective heights 1..MaxH
MaxLen == 2        \* datasets hold at most MaxLen elements
MaxBar == 3        \* HBar widths 1..MaxBar
Window == 2        \* columns probed on either side of a wide width

(***************************************************************************)
(* f32: `as f32`, *, -, /, floor, `as usize`, comparison.                  *)
(***************************************************************************)
F32Digits == 24    \* significant bits of an f32

Pow2(n) == 2 ^ n

\* 2^24: every integer below it is an f32.
F32Radix == Pow2(F32Digits)

\* 2^23: the least 24-bit significand.
F32Half == Pow2(F32Digits - 1)

Abs(n) == IF n < 0 THEN -n ELSE n

RECURSIVE Scale(_)
\* The smallest power of two s with n \div s < 2^24.
Scale(n) == IF n < F32Radix THEN 1 ELSE 2 * Scale(n \div 2)

\* A natural number rounded to 24 significant bits, ties to even.
RoundNat(n) ==
    IF n < F32Radix THEN n
    ELSE LET s == Scale(n)
             q == n \div s
             r == n % s
             up == 2 * r > s \/ (2 * r = s /\ q % 2 = 1)
         IN  (IF up THEN q + 1 ELSE q) * s

\* The exact rational m / 2^e rounded to the nearest f32.
F32Round(v) ==
    <<(IF v[1] < 0 THEN -1 ELSE 1) * RoundNat(Abs(v[1])), v[2]>>

\* `n as f32` for a usize n.
F32OfNat(n) == F32Round(<<n, 0>>)

F32Mul(a, b) == F32Round(<<a[1] * b[1], a[2] + b[2]>>)

F32Sub(a, b) ==
    LET e == IF a[2] > b[2] THEN a[2] ELSE b[2]
    IN  F32Round(<<a[1] * Pow2(e - a[2]) - b[1] * Pow2(e - b[2]), e>>)

RECURSIVE DivBits(_, _, _, _)
\* Long division: q = floor(n * 2^e / d) and r = (n * 2^e) % d, extended
\* until q has 24 significant bits: eight bits at a time while both q and d
\* are small enough for that, one bit at a time after.
DivBits(q, r, d, e) ==
    IF q >= F32Half THEN <<q, r, e>>
    ELSE IF q < Pow2(F32Digits - 9) /\ d < F32Half
    THEN DivBits(256 * q + (256 * r) \div d, (256 * r) % d, d, e + 8)
    ELSE LET bit == IF 2 * r >= d THEN 1 ELSE 0
         IN  DivBits(2 * q + bit, 2 * r - bit * d, d, e + 1)

\* a / b for integral a >= 0 and b > 0 with a / b < 2^24: the quotient
\* rounded to the nearest f32, ties to even.
F32Div(a, b) ==
    IF a[1] = 0 THEN <<0, 0>>
    ELSE LET t == DivBits(a[1] \div b[1], a[1] % b[1], b[1], 0)
             up == 2 * t[2] > b[1] \/ (2 * t[2] = b[1] /\ t[1] % 2 = 1)
         IN  <<(IF up THEN t[1] + 1 ELSE t[1]), t[3]>>

\* floor(m / 2^k) for any k >= 0.
ShiftDown(m, k) ==
    IF k > 30 THEN (IF m < 0 THEN -1 ELSE 0) ELSE m \div Pow2(k)

\* a <= b
F32Leq(a, b) ==
    IF a[2] >= b[2]
    THEN -ShiftDown(-a[1], a[2] - b[2]) <= b[1]
    ELSE a[1] <= ShiftDown(b[1], b[2] - a[2])

F32Geq(a, b) == F32Leq(b, a)

F32Eq(a, b) == F32Leq(a, b) /\ F32Leq(b, a)

\* f32::floor
F32Floor(a) == <<ShiftDown(a[1], a[2]), 0>>

F32Max(a, b) == IF F32Geq(a, b) THEN a ELSE b

F32Min(a, b) == IF F32Leq(a, b) THEN a ELSE b

\* `v as usize` for a finite v >= 0: truncation.
F32ToUsize(a) == ShiftDown(a[1], a[2])


(***************************************************************************)
(* Inputs.  A data element is a pair <<a, b>> of numerators over 4; the    *)
(* key functions handed to the constructors read it: the histogram's key   *)
(* and the scatter's hkey give a / 4, the scatter's vkey gives b / 4.      *)
(***************************************************************************)
Unit == "()"

key(v) == <<v[1], 2>>

hkey(v) == <<v[1], 2>>

vkey(v) == <<v[2], 2>>

\* Histogram samples: keys 0.0 and 0.5.
HistValues == {<<0, 0>>, <<2, 0>>}

\* Scatter samples: the points (0.5, 0.5) and (0.0, 0.75).
ScatterValues == {<<2, 2>>, <<0, 3>>}

Values(k) == IF k = "hist" THEN HistValues ELSE ScatterValues

RECURSIVE SeqsUpTo(_, _)
\* Vec<V>: the sequences over S of length at most n.
SeqsUpTo(S, n) ==
    IF n = 0 THEN {<<>>}
    ELSE LET shorter == SeqsUpTo(S, n - 1)
         IN  shorter \cup {Append(d, v) : d \in {t \in shorter : Len(t) = n - 1}, v \in S}

Datasets(k) == SeqsUpTo(Values(k), MaxLen)

Kinds == {"hist", "scatter"}

\* The (width, height) pairs a Graph is constructed with.
Dims(k) ==
    ((1 .. MaxW) \X (1 .. MaxH))
        \cup (IF k = "scatter" THEN {<<10, 10>>} ELSE {})

(***************************************************************************)
(* sf::Buffer<bool>: width, height and one cell per coordinate.            *)
(***************************************************************************)
BufferNew(w, h, default) ==
    [width |-> w, height |-> h,
     cells |-> [c \in (0 .. w - 1) \X (0 .. h - 1) |-> default]]

\* A set that blends the value into the cell instead of overwriting it.
BufferSetXor(b, x, y, value) ==
    [b EXCEPT !.cells[<<x, y>>] = (b.cells[<<x, y>>] # value)]

BufferSet(b, x, y, value) == [b EXCEPT !.cells[<<x, y>>] = value]

(***************************************************************************)
(* The renderer closures.  A call yields [val, panic, reads]: the boolean  *)
(* returned, whether the call panicked (an index past the end of the       *)
(* vector), and the vector indices it read as <<"dat", x, index>>.         *)
(***************************************************************************)
\* The column counted from the right-hand edge.
HistIndexReversed(len, x, w) ==
    F32ToUsize(F32Div(F32Mul(F32OfNat(len), F32OfNat(w - 1 - x)), F32OfNat(w)))

\* lib.rs 75-76: pos = len as f32 * x as f32 / width as f32; pos as usize
HistIndex(len, x, w) ==
    F32ToUsize(F32Div(F32Mul(F32OfNat(len), F32OfNat(x)), F32OfNat(w)))

\* The comparison made strict.
HistRendererStrict(dat, x, y, w, h) ==
    IF Len(dat) <= 1
    THEN [val |-> FALSE, panic |-> FALSE, reads |-> {}]
    ELSE LET index == HistIndex(Len(dat), x, w)
             hh == F32Div(F32OfNat(y), F32OfNat(h))
         IN  [val |-> ~F32Leq(key(dat[index + 1]), hh), panic |-> FALSE,
              reads |-> {<<"dat", x, index>>}]

\* The degenerate case narrowed to the empty vector.
HistRendererEmptyOnly(dat, x, y, w, h) ==
    IF Len(dat) < 1
    THEN [val |-> FALSE, panic |-> FALSE, reads |-> {}]
    ELSE LET index == HistIndex(Len(dat), x, w)
             hh == F32Div(F32OfNat(y), F32OfNat(h))
         IN  [val |-> F32Geq(key(dat[index + 1]), hh), panic |-> FALSE,
              reads |-> {<<"dat", x, index>>}]

HistRenderer(dat, x, y, w, h) ==
    IF Len(dat) <= 1
    THEN [val |-> FALSE, panic |-> FALSE, reads |-> {}]
    ELSE LET index == HistIndex(Len(dat), x, w)
             hh == F32Div(F32OfNat(y), F32OfNat(h))
         IN  IF index >= Len(dat)
             THEN [val |-> FALSE, panic |-> TRUE, reads |-> {<<"dat", x, index>>}]
             ELSE [val |-> F32Geq(key(dat[index + 1]), hh), panic |-> FALSE,
                   reads |-> {<<"dat", x, index>>}]

\* The scaled coordinates compared without flooring them.
ScatterHitNoFloor(val, x, y, w, h) ==
    LET a == F32Mul(hkey(val), F32OfNat(w))
        b == F32Mul(vkey(val), F32OfNat(h))
    IN  F32Eq(a, F32OfNat(x)) /\ F32Eq(b, F32OfNat(y))

\* lib.rs 93-95 for one element of the vector.
ScatterHit(val, x, y, w, h) ==
    LET a == F32Mul(hkey(val), F32OfNat(w))
        b == F32Mul(vkey(val), F32OfNat(h))
    IN  F32Eq(F32Floor(a), F32OfNat(x)) /\ F32Eq(F32Floor(b), F32OfNat(y))

ScatterRenderer(dat, x, y, w, h) ==
    [val |-> \E i \in 1 .. Len(dat) : ScatterHit(dat[i], x, y, w, h),
     panic |-> FALSE, reads |-> {}]

\* (*self.renderer)(&self.data, x, y)
Renderer(k, dat, x, y, w, h) ==
    IF k = "hist" THEN HistRenderer(dat, x, y, w, h)
    ELSE ScatterRenderer(dat, x, y, w, h)

(***************************************************************************)
(* Graph::render: for x in 0..buf.width, for y in 0..buf.height, set.      *)
(* The loop state is [buf, acc, panic]; a panic ends the loop where it is. *)
(***************************************************************************)
RenderCell(k, dat, w, h, st, x, y) ==
    LET r == Renderer(k, dat, x, y, w, h)
    IN  IF r.panic
        THEN [buf |-> st.buf, acc |-> st.acc \cup r.reads, panic |-> TRUE]
        ELSE [buf |-> BufferSet(st.buf, x, y, r.val),
              acc |-> st.acc \cup r.reads \cup {<<"buf", x, y>>},
              panic |-> FALSE]

RECURSIVE RenderRows(_, _, _, _, _, _, _)
RenderRows(k, dat, w, h, st, x, y) ==
    IF st.panic \/ y >= st.buf.height THEN st
    ELSE RenderRows(k, dat, w, h, RenderCell(k, dat, w, h, st, x, y), x, y + 1)

RECURSIVE RenderCols(_, _, _, _, _, _)
RenderCols(k, dat, w, h, st, x) ==
    IF st.panic \/ x >= st.buf.width THEN st
    ELSE RenderCols(k, dat, w, h, RenderRows(k, dat, w, h, st, x, 0), x + 1)

\* The column loop started at 1.
RenderLoopFromOne(k, dat, w, h, b) ==
    RenderCols(k, dat, w, h, [buf |-> b, acc |-> {}, panic |-> FALSE], 1)

RenderLoop(k, dat, w, h, b) ==
    RenderCols(k, dat, w, h, [buf |-> b, acc |-> {}, panic |-> FALSE], 0)

\* The argument copied into the field and left in place.
SwapCopy(arg, field) == <<arg, arg>>

\* mem::swap(&mut data, &mut self.data): <<the argument, the field>> after.
Swap(arg, field) == <<field, arg>>

(***************************************************************************)
(* GridPrint for Graph.  sf::grid_cell(buf, X, Y) reads the 2x2 block      *)
(* anchored at (X, Y); the glyph it picks is a function of the block, so   *)
(* the block stands for the glyph.                                         *)
(***************************************************************************)
\* sf::ColorChar(foreground, background, glyph)
ColorChar(fg, bg, glyph) == <<fg, bg, glyph>>

Block(X, Y) == {<<X, Y>>, <<X + 1, Y>>, <<X, Y + 1>>, <<X + 1, Y + 1>>}

GridCell(b, X, Y) ==
    <<b.cells[<<X, Y>>], b.cells[<<X + 1, Y>>],
      b.cells[<<X, Y + 1>>], b.cells[<<X + 1, Y + 1>>]>>

\* The two halves in the wrong order.
GraphSizeSwapped(b) == <<b.height \div 2, b.width \div 2>>

GraphSize(b) == <<b.width \div 2, b.height \div 2>>

\* The anchor of get_cell(x, y): (x*2, buf.height - (y+1)*2).
Anchor(b, x, y) == <<x * 2, b.height - (y + 1) * 2>>

GraphCell(b, x, y) ==
    LET a == Anchor(b, x, y) IN ColorChar(231, 16, GridCell(b, a[1], a[2]))

GraphCellAcc(b, x, y) ==
    LET a == Anchor(b, x, y) IN {<<"buf", c[1], c[2]>> : c \in Block(a[1], a[2])}

(***************************************************************************)
(* The Graph's operations.                                                 *)
(***************************************************************************)
NoHBar == [value |-> <<0, 0>>, width |-> 0]

\* Graph::hist / Graph::scatter
Init ==
    /\ kind \in Kinds
    /\ \E d \in Dims(kind) : width = d[1] /\ height = d[2]
    /\ buf = BufferNew(width, height, FALSE)
    /\ data = <<>>
    /\ op = "new"
    /\ ret = Unit
    /\ acc = {}
    /\ panicked = FALSE
    /\ hbar = NoHBar

render ==
    /\ ~panicked
    /\ \E st \in {RenderLoop(kind, data, width, height, buf)} :
           /\ buf' = st.buf
           /\ acc' = st.acc
           /\ panicked' = st.panic
    /\ op' = "render"
    /\ ret' = Unit
    /\ UNCHANGED <<kind, width, height, data, hbar>>

set_data(d) ==
    /\ ~panicked
    /\ \E sw \in {Swap(d, data)} :
       \E st \in {RenderLoop(kind, sw[2], width, height, buf)} :
           /\ data' = sw[2]
           /\ buf' = st.buf
           /\ acc' = st.acc
           /\ panicked' = st.panic
           /\ ret' = IF st.panic THEN Unit ELSE sw[1]
    /\ op' = "set_data"
    /\ UNCHANGED <<kind, width, height, hbar>>

get_size ==
    /\ ~panicked
    /\ op' = "get_size"
    /\ ret' = GraphSize(buf)
    /\ acc' = {}
    /\ UNCHANGED <<kind, width, height, buf, data, panicked, hbar>>

\* Called within the bounds get_size sets, as the trait requires.
get_cell(x, y) ==
    /\ ~panicked
    /\ op' = "get_cell"
    /\ ret' = <<x, y, GraphCell(buf, x, y)>>
    /\ acc' = GraphCellAcc(buf, x, y)
    /\ UNCHANGED <<kind, width, height, buf, data, panicked, hbar>>

\* GridPrint::print: one line per row i, one get_cell(x, i) per column x.
print ==
    /\ ~panicked
    /\ LET size == GraphSize(buf)
       IN  /\ ret' = [i \in 0 .. size[2] - 1 |->
                        [x \in 0 .. size[1] - 1 |-> GraphCell(buf, x, i)]]
           /\ acc' = UNION {GraphCellAcc(buf, x, i) :
                              x \in 0 .. size[1] - 1, i \in 0 .. size[2] - 1}
    /\ op' = "print"
    /\ UNCHANGED <<kind, width, height, buf, data, panicked, hbar>>

Next ==
    \/ render
    \/ \E d \in Datasets(kind) : set_data(d)
    \/ get_size
    \/ \E x \in 0 .. GraphSize(buf)[1] - 1, y \in 0 .. GraphSize(buf)[2] - 1 :
          get_cell(x, y)
    \/ print

Spec == Init /\ [][Next]_vars

(***************************************************************************)
(* The renderer closures on their own: the plot size and the dataset are   *)
(* drawn, no buffer is allocated, and each step is one call of the closure *)
(* as render makes it for one cell.  The widths include those around 2^24, *)
(* where `as f32` starts to round.                                         *)
(***************************************************************************)
WideWidths == (F32Radix - Window) .. (F32Radix + Window)

\* The columns probed of a plot or bar w wide: the first and the last ones.
Columns(w) == {x \in (0 .. Window) \cup ((w - Window) .. (w - 1)) : 0 <= x /\ x < w}

InitClosure ==
    /\ kind \in Kinds
    /\ width \in (1 .. MaxW) \cup WideWidths
    /\ height \in 1 .. MaxH
    /\ buf = BufferNew(0, 0, FALSE)
    /\ data \in Datasets(kind)
    /\ op = "new"
    /\ ret = Unit
    /\ acc = {}
    /\ panicked = FALSE
    /\ hbar = NoHBar

call(x, y) ==
    /\ ~panicked
    /\ \E r \in {Renderer(kind, data, x, y, width, height)} :
           /\ ret' = <<x, y, r.val>>
           /\ acc' = r.reads
           /\ panicked' = r.panic
    /\ op' = "call"
    /\ UNCHANGED <<kind, width, height, buf, data, hbar>>

NextClosure == \E x \in Columns(width), y \in 0 .. height - 1 : call(x, y)

SpecClosure == InitClosure /\ [][NextClosure]_vars

(***************************************************************************)
(* HBar.                                                                   *)
(***************************************************************************)
hblocks == <<" ", "1/8", "2/8", "3/8", "4/8", "5/8", "6/8", "7/8", "8/8">>

\* Fill ratios 0.0, 0.125, 0.5 and 1.0.
BarValues == {<<0, 0>>, <<1, 3>>, <<1, 1>>, <<1, 0>>}

BarWidths == (1 .. MaxBar) \cup WideWidths

\* lib.rs 148: (9.0*(value*width as f32 - x as f32)).max(0.0).min(8.0) as usize
HBarIndex(value, w, x) ==
    F32ToUsize(
        F32Min(
            F32Max(F32Mul(<<9, 0>>, F32Sub(F32Mul(value, F32OfNat(w)), F32OfNat(x))),
                   <<0, 0>>),
            <<8, 0>>))

HBarCell(bar, x, y) == ColorChar(231, 16, hblocks[HBarIndex(bar.value, bar.width, x) + 1])

\* HBar::new
InitHBar ==
    /\ hbar \in [value : BarValues, width : BarWidths]
    /\ kind = "hbar"
    /\ width = 0
    /\ height = 0
    /\ buf = BufferNew(0, 0, FALSE)
    /\ data = <<>>
    /\ op = "new"
    /\ ret = Unit
    /\ acc = {}
    /\ panicked = FALSE

HBar_get_size ==
    /\ op' = "get_size"
    /\ ret' = <<hbar.width, 1>>
    /\ acc' = {}
    /\ UNCHANGED <<kind, width, height, buf, data, panicked, hbar>>

HBar_get_cell(x, y) ==
    /\ op' = "get_cell"
    /\ ret' = <<x, y, HBarCell(hbar, x, y)>>
    /\ acc' = {<<"hblocks", HBarIndex(hbar.value, hbar.width, x)>>}
    /\ UNCHANGED <<kind, width, height, buf, data, panicked, hbar>>

\* GridPrint::print, for the bars short enough to enumerate.
HBar_print ==
    /\ hbar.width <= MaxBar
    /\ op' = "print"
    /\ ret' = [i \in 0 .. 0 |-> [x \in 0 .. hbar.width - 1 |-> HBarCell(hbar, x, i)]]
    /\ acc' = {<<"hblocks", HBarIndex(hbar.value, hbar.width, x)>> : x \in 0 .. hbar.width - 1}
    /\ UNCHANGED <<kind, width, height, buf, data, panicked, hbar>>

NextHBar ==
    \/ HBar_get_size
    \/ \E x \in Columns(hbar.width) \cup {hbar.width, hbar.width + 1} : HBar_get_cell(x, 0)
    \/ HBar_print

SpecHBar == InitHBar /\ [][NextHBar]_vars

(***************************************************************************)
(* Properties.                                                             *)
(***************************************************************************)
Cells == (0 .. width - 1) \X (0 .. height - 1)

Lit == {c \in Cells : buf.cells[c]}

Rendered == op \in {"render", "set_data"}

\* C1: when set_data(D) has returned, every cell (x, y) of the buffer with
\* 0 <= x < width and 0 <= y < height equals the renderer applied to
\* (D, x, y); no cell is left over from an earlier dataset.
C1_BufferConsistent ==
    op = "set_data" =>
        /\ ~panicked
        /\ DOMAIN buf.cells = Cells
        /\ \A c \in Cells :
               buf.cells[c] = Renderer(kind, data, c[1], c[2], width, height).val

\* C1 witness: set_data replaced a dataset that had lit a cell the new
\* dataset leaves dark.
C1_Witness ==
    /\ op = "set_data"
    /\ ret # <<>>
    /\ data # <<>>
    /\ \E c \in Cells :
           Renderer(kind, ret, c[1], c[2], width, height).val /\ ~buf.cells[c]

\* C2: set_data returns the dataset stored before the call, and the first
\* set_data on a freshly constructed Graph returns the empty dataset.
C2_ReturnsPrevious ==
    [][/\ op' = "set_data" => ret' = data
       /\ (op = "new" /\ op' = "set_data") => ret' = <<>>]_vars

\* C2 witness: set_data(A) then set_data(B), A and B different and not empty,
\* has returned A.
C2_Witness ==
    /\ op = "set_data"
    /\ ret # <<>>
    /\ data # <<>>
    /\ ret # data

\* C3: in a histogram holding at least two elements, after render a cell
\* (x, y) is true iff key(data[index]) >= y / height, with index being
\* len * x / width truncated, all in the f32 arithmetic of the source.
C3_HistCells ==
    (kind = "hist" /\ Rendered /\ Len(data) >= 2) =>
        \A c \in Cells :
            LET pos == F32Div(F32Mul(F32OfNat(Len(data)), F32OfNat(c[1])),
                              F32OfNat(width))
                index == F32ToUsize(pos)
            IN  buf.cells[c] = F32Geq(key(data[index + 1]),
                                      F32Div(F32OfNat(c[2]), F32OfNat(height)))

\* C3 witness: a rendered histogram of two different elements with a lit
\* cell, a dark cell, and a cell whose key equals y / height exactly.
C3_Witness ==
    /\ kind = "hist"
    /\ Rendered
    /\ Len(data) >= 2
    /\ data[1] # data[2]
    /\ Lit # {}
    /\ Lit # Cells
    /\ height = 2
    /\ buf.cells[<<0, 1>>]
    /\ key(data[1]) = <<2, 2>>

\* C4: a histogram whose dataset has 0 or 1 elements has an all-false buffer
\* after set_data, also when the previous dataset had drawn cells.
C4_DegenerateBlank ==
    (kind = "hist" /\ op = "set_data" /\ Len(data) <= 1) => Lit = {}

\* C4 witness: a one-element dataset has replaced one that had lit cells.
C4_Witness ==
    /\ kind = "hist"
    /\ op = "set_data"
    /\ Len(data) = 1
    /\ Len(ret) >= 2
    /\ \E c \in Cells : HistRenderer(ret, c[1], c[2], width, height).val

\* C5: in a scatter plot, after set_data(D) a cell (x, y) is true iff some
\* point p of D has floor(hkey(p) * width) = x and floor(vkey(p) * height) = y,
\* in the f32 arithmetic of the source; one point at (0.5, 0.5) on a 10 x 10
\* plot lights cell (5, 5) and no other.
C5_ScatterCells ==
    (kind = "scatter" /\ op = "set_data") =>
        /\ \A c \in Cells :
               buf.cells[c] =
                   \E i \in 1 .. Len(data) :
                       /\ F32Eq(F32Floor(F32Mul(hkey(data[i]), F32OfNat(width))),
                                F32OfNat(c[1]))
                       /\ F32Eq(F32Floor(F32Mul(vkey(data[i]), F32OfNat(height))),
                                F32OfNat(c[2]))
        /\ (width = 10 /\ height = 10 /\ data = << <<2, 2>> >>) => Lit = {<<5, 5>>}

\* C5 witness: the 10 x 10 plot of the single point (0.5, 0.5).
C5_Witness ==
    /\ kind = "scatter"
    /\ op = "set_data"
    /\ width = 10
    /\ height = 10
    /\ data = << <<2, 2>> >>
    /\ buf.cells[<<5, 5>>]

\* C6: for every width W, a bar of value 0.0 selects the empty glyph
\* (index 0) for all x, and a bar of value 1.0 selects the full glyph
\* (index 8) for all x < W.
C6_HBarBoundary ==
    (kind = "hbar" /\ op = "get_cell") =>
        /\ F32Eq(hbar.value, <<0, 0>>) => ret[3] = ColorChar(231, 16, hblocks[1])
        /\ (F32Eq(hbar.value, <<1, 0>>) /\ ret[1] < hbar.width) =>
               ret[3] = ColorChar(231, 16, hblocks[9])

\* C7: get_size returns (W / 2, H / 2) by integer division in every
\* reachable state, and the buffer keeps the dimensions W x H it was
\* constructed with.
C7_SizeFixed ==
    /\ buf.width = width
    /\ buf.height = height
    /\ DOMAIN buf.cells = Cells
    /\ op = "get_size" => ret = <<width \div 2, height \div 2>>

\* C7 witness: get_size on a plot of odd width and even height that holds
\* a dataset.
C7_Witness ==
    /\ op = "get_size"
    /\ data # <<>>
    /\ width = 3
    /\ height = 2
    /\ ret = <<1, 1>>

\* C8: render never changes the stored dataset, and a render that follows
\* a render (set_data ends with one) leaves the buffer as it was.
C8_RenderIdempotent ==
    [][/\ op' = "render" => data' = data
       /\ (Rendered /\ op' = "render") => buf' = buf]_vars

\* C8 witness: a render of a dataset that lights some cells and not others.
C8_Witness ==
    /\ op = "render"
    /\ data # <<>>
    /\ Lit # {}
    /\ Lit # Cells

\* C9: no operation accesses out of range: every buffer coordinate written
\* by render or sampled by get_cell lies in [0, width) x [0, height), and
\* every index the histogram renderer reads is below the dataset's length.
C9_NoAccessOutOfRange ==
    \A a \in acc :
        /\ a[1] = "buf" => (0 <= a[2] /\ a[2] < buf.width /\ 0 <= a[3] /\ a[3] < buf.height)
        /\ a[1] = "dat" => (0 <= a[3] /\ a[3] < Len(data))

\* C10: in a histogram of at least two elements and of width at least the
\* dataset's length, the index read for column x does not decrease as x
\* increases over [0, width).
C10_IndexMonotone ==
    (kind = "hist" /\ Rendered /\ Len(data) >= 2 /\ width >= Len(data)) =>
        /\ \A x \in 0 .. width - 1 : \E a \in acc : a[1] = "dat" /\ a[2] = x
        /\ \A a, b \in acc :
               (a[1] = "dat" /\ b[1] = "dat" /\ a[2] <= b[2]) => a[3] <= b[3]

\* C10 witness: a histogram as wide as three columns whose two elements are
\* both read.
C10_Witness ==
    /\ kind = "hist"
    /\ op = "set_data"
    /\ Len(data) = 2
    /\ width = 3
    /\ <<"dat", 0, 0>> \in acc
    /\ <<"dat", 2, 1>> \in acc

=============================================================================
